---- MODULE Spec2Model ----
(***************************************************************************)
(* Model of the chat turn pipeline of src/app/components/ChatContainer.tsx *)
(* (handleSendMessage, startNewChat, loadConversationMessages) and of the  *)
(* tool-call rendering of src/app/components/ChatMessages.tsx.             *)
(*                                                                         *)
(* Text is a sequence of characters, a character is a string token.  The   *)
(* response body is a sequence of bytes; a byte is a string token too.     *)
(* The JSON text of an event is a token sequence  { type field ... }       *)
(* so that JSON.parse is a real parse that a cut or damaged line fails.    *)
(***************************************************************************)
EXTENDS Integers, Sequences, FiniteSets, TLC

\* ------------------------------------------------------------------ bounds
\* accepted calls of handleSendMessage in one behaviour
MaxTurns == 2
\* lines of a response body in the byte-level specification SpecStream
MaxLines == 2
\* events of a response body in the event-level specification SpecEvents
MaxEvents == 4
\* fields of a submitted form in the specification SpecForm
MaxFields == 2

\* --------------------------------------------------------------- constants
LF == "LF"
\* line.startsWith('data: ')
DataPrefix == <<"d", "a", "t", "a", ":", " ">>
\* line.slice(6)
PrefixLen == 6
\* data === '[DONE]'
DoneSentinel == <<"[", "D", "O", "N", "E", "]">>
Whitespace == {" ", LF, "CR"}
\* JS undefined, for an absent output / input / field
Undef == "undefined"
\* input: {}
EmptyObject == "{}"
\* fullContent || 'Sorry, I could not process your request.'
FallbackText == <<"Sorry, I could not process your request.">>
\* content of errorMessage
ApologyText == <<"Sorry, I encountered an error while processing your message. Please try again.">>
\* currentConversationId: string | null
NoId == "null"

\* ------------------------------------------------------------- sequences
Last(s) == s[Len(s)]
Front(s) == SubSeq(s, 1, Len(s) - 1)

RECURSIVE Concat(_)
Concat(ss) == IF ss = <<>> THEN <<>> ELSE Head(ss) \o Concat(Tail(ss))

\* String.prototype.startsWith
StartsWith(s, p) == Len(s) >= Len(p) /\ SubSeq(s, 1, Len(p)) = p

\* String.prototype.slice(n)
Slice(s, n) == SubSeq(s, n + 1, Len(s))

\* String.prototype.trim
RECURSIVE TrimLeft(_)
TrimLeft(s) ==
    IF s # <<>> /\ Head(s) \in Whitespace THEN TrimLeft(Tail(s)) ELSE s

RECURSIVE TrimRight(_)
TrimRight(s) ==
    IF s # <<>> /\ Last(s) \in Whitespace THEN TrimRight(Front(s)) ELSE s

Trim(s) == TrimRight(TrimLeft(s))

\* ------------------------------------------------------------ TextDecoder
\* decoder.decode(value, { stream: true }) of a non-fatal UTF-8 TextDecoder:
\* "C3" "A9" is the two-byte character "E9"; a lead byte at the end of a
\* chunk is kept for the next call; an invalid byte decodes to U+FFFD.
RECURSIVE DecodeFrom(_, _, _, _)
DecodeFrom(pending, bytes, i, out) ==
    IF i > Len(bytes) THEN [text |-> out, pending |-> pending]
    ELSE LET b == bytes[i] IN
         IF pending # <<>>
         THEN IF b = "A9"
              THEN DecodeFrom(<<>>, bytes, i + 1, Append(out, "E9"))
              ELSE DecodeFrom(<<>>, bytes, i, Append(out, "FFFD"))
         ELSE IF b = "C3" THEN DecodeFrom(<<b>>, bytes, i + 1, out)
         ELSE IF b \in {"A9", "FF"}
              THEN DecodeFrom(<<>>, bytes, i + 1, Append(out, "FFFD"))
              ELSE DecodeFrom(<<>>, bytes, i + 1, Append(out, b))

decode(pending, value) == DecodeFrom(pending, value, 1, <<>>)

\* ------------------------------------------------------------ buffer.split
RECURSIVE SplitFrom(_, _, _, _)
SplitFrom(text, i, start, acc) ==
    IF i > Len(text) THEN Append(acc, SubSeq(text, start, Len(text)))
    ELSE IF text[i] = LF
         THEN SplitFrom(text, i + 1, i + 1, Append(acc, SubSeq(text, start, i - 1)))
         ELSE SplitFrom(text, i + 1, start, acc)

\* buffer.split('\n'): never empty, the last element is the open fragment
split(text) == SplitFrom(text, 1, 1, <<>>)

\* --------------------------------------------------------------- JSON.parse
ToolIds == {"A", "B"}
ToolNames == {"SEARCH", "REQUEST_USER_INPUT"}
InputValues == {"i1", "i2"}
OutputValues == {"o1", "o2"}
DeltaChars == {"x", "y", "E9", "FFFD"}

Parsed(type, delta, id, name, input, output) ==
    [type |-> type, delta |-> delta, toolCallId |-> id, toolName |-> name,
     input |-> input, output |-> output]

\* JSON.parse(data) followed by the reads of parsed.type: "SyntaxError" when
\* the text is no JSON, "TypeError" for the JSON text null.
Parse(data) ==
    LET n == Len(data)
        bad == Parsed("SyntaxError", <<>>, Undef, Undef, Undef, Undef)
    IN  IF data = <<"null">>
        THEN Parsed("TypeError", <<>>, Undef, Undef, Undef, Undef)
        ELSE IF n < 3 \/ data[1] # "{" \/ data[n] # "}" THEN bad
        ELSE LET type == data[2]
                 rest == SubSeq(data, 3, n - 1)
             IN  IF type = "text-delta"
                 THEN IF \A i \in 1..Len(rest) : rest[i] \in DeltaChars
                      THEN Parsed(type, rest, Undef, Undef, Undef, Undef)
                      ELSE bad
                 ELSE IF type = "tool-input-start"
                 THEN IF Len(rest) = 2 /\ rest[1] \in ToolIds /\ rest[2] \in ToolNames
                      THEN Parsed(type, <<>>, rest[1], rest[2], Undef, Undef)
                      ELSE bad
                 ELSE IF type = "tool-input-available"
                 THEN IF Len(rest) = 2 /\ rest[1] \in ToolIds /\ rest[2] \in InputValues
                      THEN Parsed(type, <<>>, rest[1], Undef, rest[2], Undef)
                      ELSE IF Len(rest) = 1 /\ rest[1] \in ToolIds
                      THEN Parsed(type, <<>>, rest[1], Undef, Undef, Undef)
                      ELSE bad
                 ELSE IF type = "tool-output-available"
                 THEN IF Len(rest) = 2 /\ rest[1] \in ToolIds /\ rest[2] \in OutputValues
                      THEN Parsed(type, <<>>, rest[1], Undef, Undef, rest[2])
                      ELSE bad
                 ELSE IF type = "ping" /\ rest = <<>>
                 THEN Parsed(type, <<>>, Undef, Undef, Undef, Undef)
                 ELSE bad

\* ------------------------------------------------------------ toolCallsMap
\* A JS Map<string, ToolCall>: a sequence of records in insertion order.
MapHas(m, id) == \E i \in 1..Len(m) : m[i].id = id

MapIndex(m, id) == CHOOSE i \in 1..Len(m) : m[i].id = id

\* Map.prototype.get (only used under MapHas)
MapGet(m, id) == m[MapIndex(m, id)]

\* Mutant of MapSet: every set adds an entry.
MapSetAppends(m, id, v) == Append(m, v)

\* Mutant of MapSet: setting an existing key moves it to the end.
MapSetMovesLast(m, id, v) ==
    Append(SelectSeq(m, LAMBDA r : r.id # id), v)

\* Map.prototype.set: an existing key keeps its place, a new key goes last
MapSet(m, id, v) ==
    IF MapHas(m, id) THEN [m EXCEPT ![MapIndex(m, id)] = v] ELSE Append(m, v)

\* Array.from(toolCallsMap.values())
MapValues(m) == m

\* -------------------------------------------------------------- accumulator
\* The mutable locals of one read loop (fullContent, toolCallsMap) together
\* with the two React states the loop publishes to.  History, not read by
\* the program: applied (the deltas added to fullContent, in order),
\* published (the last list this loop handed to setStreamingToolCalls) and
\* seen (the lines the for loop went over).
Acc(fullContent, toolCallsMap, sContent, sToolCalls, applied, published, seen) ==
    [fullContent |-> fullContent, toolCallsMap |-> toolCallsMap,
     streamingContent |-> sContent, streamingToolCalls |-> sToolCalls,
     applied |-> applied, published |-> published, seen |-> seen]

ToolCall(id, name, input, output, status) ==
    [id |-> id, name |-> name, input |-> input, output |-> output, status |-> status]

\* setStreamingToolCalls(Array.from(toolCallsMap.values()))
Publish(acc, m) ==
    [acc EXCEPT !.toolCallsMap = m, !.streamingToolCalls = MapValues(m),
                !.published = MapValues(m)]

\* Mutant of TextDelta: the delta replaces the text instead of extending it.
TextDeltaReplaces(acc, parsed) ==
    [acc EXCEPT !.fullContent = parsed.delta, !.streamingContent = parsed.delta,
                !.applied = Append(acc.applied, parsed.delta)]

\* parsed.type === 'text-delta':  fullContent += parsed.delta || ''
TextDelta(acc, parsed) ==
    LET full == acc.fullContent \o parsed.delta
    IN  [acc EXCEPT !.fullContent = full, !.streamingContent = full,
                    !.applied = Append(acc.applied, parsed.delta)]

\* Mutant of ToolInputStart: the collection is changed and not published.
ToolInputStartUnpublished(acc, parsed) ==
    LET toolCall == ToolCall(parsed.toolCallId, parsed.toolName, EmptyObject, Undef, "running")
    IN  [acc EXCEPT !.toolCallsMap = MapSet(acc.toolCallsMap, parsed.toolCallId, toolCall)]

\* parsed.type === 'tool-input-start'
ToolInputStart(acc, parsed) ==
    LET toolCall == ToolCall(parsed.toolCallId, parsed.toolName, EmptyObject, Undef, "running")
    IN  Publish(acc, MapSet(acc.toolCallsMap, parsed.toolCallId, toolCall))

\* Mutant of ToolInputAvailable: the input starts the call over.
ToolInputAvailableRestarts(acc, parsed) ==
    IF MapHas(acc.toolCallsMap, parsed.toolCallId)
    THEN LET existingTool == MapGet(acc.toolCallsMap, parsed.toolCallId)
             updated == [existingTool EXCEPT
                            !.input = IF parsed.input = Undef THEN EmptyObject ELSE parsed.input,
                            !.output = Undef, !.status = "running"]
         IN  Publish(acc, MapSet(acc.toolCallsMap, parsed.toolCallId, updated))
    ELSE acc

\* parsed.type === 'tool-input-available'
ToolInputAvailable(acc, parsed) ==
    IF MapHas(acc.toolCallsMap, parsed.toolCallId)
    THEN LET existingTool == MapGet(acc.toolCallsMap, parsed.toolCallId)
             updated == [existingTool EXCEPT
                            !.input = IF parsed.input = Undef THEN EmptyObject ELSE parsed.input]
         IN  Publish(acc, MapSet(acc.toolCallsMap, parsed.toolCallId, updated))
    ELSE acc

\* Mutant of ToolOutputAvailable: the output o2 marks the call as failed.
ToolOutputAvailableFlagsError(acc, parsed) ==
    IF MapHas(acc.toolCallsMap, parsed.toolCallId)
    THEN LET existingTool == MapGet(acc.toolCallsMap, parsed.toolCallId)
             updated == [existingTool EXCEPT
                            !.output = parsed.output,
                            !.status = IF parsed.output = "o2" THEN "error" ELSE "completed"]
         IN  Publish(acc, MapSet(acc.toolCallsMap, parsed.toolCallId, updated))
    ELSE acc

\* Mutant of ToolOutputAvailable: an output for an unknown id makes a record.
ToolOutputAvailableInserts(acc, parsed) ==
    LET existingTool ==
            IF MapHas(acc.toolCallsMap, parsed.toolCallId)
            THEN MapGet(acc.toolCallsMap, parsed.toolCallId)
            ELSE ToolCall(parsed.toolCallId, Undef, EmptyObject, Undef, "running")
        updated == [existingTool EXCEPT !.output = parsed.output, !.status = "completed"]
    IN  Publish(acc, MapSet(acc.toolCallsMap, parsed.toolCallId, updated))

\* parsed.type === 'tool-output-available'
ToolOutputAvailable(acc, parsed) ==
    IF MapHas(acc.toolCallsMap, parsed.toolCallId)
    THEN LET existingTool == MapGet(acc.toolCallsMap, parsed.toolCallId)
             updated == [existingTool EXCEPT !.output = parsed.output, !.status = "completed"]
         IN  Publish(acc, MapSet(acc.toolCallsMap, parsed.toolCallId, updated))
    ELSE acc

\* Mutant of ApplyEvent: a throw of JSON.parse discards what the loop built.
ApplyEventDiscardsOnThrow(acc, parsed) ==
    IF parsed.type = "text-delta" THEN TextDelta(acc, parsed)
    ELSE IF parsed.type = "tool-input-start" THEN ToolInputStart(acc, parsed)
    ELSE IF parsed.type = "tool-input-available" THEN ToolInputAvailable(acc, parsed)
    ELSE IF parsed.type = "tool-output-available" THEN ToolOutputAvailable(acc, parsed)
    ELSE IF parsed.type = "SyntaxError"
         THEN [acc EXCEPT !.fullContent = <<>>, !.toolCallsMap = <<>>]
    ELSE acc

\* The body of the inner try: a throw of JSON.parse or of parsed.type is
\* caught by the inner catch, which only logs.
ApplyEvent(acc, parsed) ==
    IF parsed.type = "text-delta" THEN TextDelta(acc, parsed)
    ELSE IF parsed.type = "tool-input-start" THEN ToolInputStart(acc, parsed)
    ELSE IF parsed.type = "tool-input-available" THEN ToolInputAvailable(acc, parsed)
    ELSE IF parsed.type = "tool-output-available" THEN ToolOutputAvailable(acc, parsed)
    ELSE acc

\* Mutant of ProcessLine: the line is trimmed before the prefix is tested.
ProcessLineTrimsFirst(acc, line) ==
    IF Trim(line) = <<>> \/ ~StartsWith(Trim(line), DataPrefix) THEN acc
    ELSE LET data == Slice(Trim(line), PrefixLen)
         IN  IF data = DoneSentinel THEN acc
             ELSE ApplyEvent(acc, Parse(data))

\* One iteration of  for (const line of lines)
ProcessLine(acc, line) ==
    IF Trim(line) = <<>> \/ ~StartsWith(line, DataPrefix) THEN acc
    ELSE LET data == Slice(line, PrefixLen)
         IN  IF data = DoneSentinel THEN acc
             ELSE ApplyEvent(acc, Parse(data))

RECURSIVE ProcessLines(_, _, _)
ProcessLines(acc, lines, i) ==
    IF i > Len(lines) THEN acc
    ELSE ProcessLines([ProcessLine(acc, lines[i]) EXCEPT !.seen = Append(acc.seen, lines[i])],
                      lines, i + 1)

\* lines after  buffer += decoded; lines = buffer.split('\n'); lines.pop()
CompleteLines(text) == Front(split(text))

\* Mutant of KeptFragment: the open fragment is dropped.
KeptFragmentDropped(text) == <<>>

\* buffer = lines.pop() || ''
KeptFragment(text) == Last(split(text))

\* -------------------------------------------------------------------- state
VARIABLES
    isLoading,              \* useState(false)
    messages,               \* useState<Message[]>([])
    currentConversationId,  \* useState<string | null>(null)
    streamingContent,       \* useState('')
    streamingToolCalls,     \* useState<ToolCall[]>([])
    inputValue,             \* useState('')
    closure,                \* the state values the last render gave the callbacks
    turns,                  \* the calls of handleSendMessage that were accepted
    loadConversationsCalls  \* the calls of loadConversations() made in line 154

vars == <<isLoading, messages, currentConversationId, streamingContent,
          streamingToolCalls, inputValue, closure, turns, loadConversationsCalls>>

Turns == 1..MaxTurns

\* interface Message; timestamp left out, an absent toolCalls is <<>>.
\* nanoid() gives the Messages of turn t the ids <<t, "user">>, <<t, "assistant">>.
Message(id, content, sender, toolCalls) ==
    [id |-> id, content |-> content, sender |-> sender, toolCalls |-> toolCalls]

\* What a render closes over for the callbacks it hands out.
Rendered == [isLoading |-> isLoading, messages |-> messages,
             currentConversationId |-> currentConversationId]

\* One call of handleSendMessage: where it stands (pc), what it closed over
\* and sent (chatMessages, conversationId), the body it reads (wire, pos),
\* the locals of its read loop, and history (outcome; cancelled: the
\* transcript was replaced while the turn was in flight).  A finalized turn
\* keeps its record as history; a failed turn keeps its outcome only.
IdleTurn ==
    [pc |-> "idle", chatMessages |-> <<>>, conversationId |-> NoId,
     wire |-> <<>>, pos |-> 0, pending |-> <<>>, buffer |-> <<>>,
     fullContent |-> <<>>, toolCallsMap |-> <<>>,
     applied |-> <<>>, published |-> <<>>, seen |-> <<>>,
     outcome |-> "none", cancelled |-> FALSE]

InFlight(t) == turns[t].pc \in {"fetch", "read"}

Init ==
    /\ isLoading = FALSE
    /\ messages = <<>>
    /\ currentConversationId = NoId
    /\ streamingContent = <<>>
    /\ streamingToolCalls = <<>>
    /\ inputValue = <<>>
    /\ closure = [isLoading |-> FALSE, messages |-> <<>>, currentConversationId |-> NoId]
    /\ turns = [t \in Turns |-> IdleTurn]
    /\ loadConversationsCalls = 0

\* ------------------------------------------------------- handleSendMessage
RoleOf(msg) == IF msg.sender = "user" THEN "user" ELSE "assistant"

\* chatMessages = [...messages, userMessage].map(msg => ({ role, content }))
ChatMessages(msgs) ==
    [i \in 1..Len(msgs) |-> [role |-> RoleOf(msgs[i]), content |-> msgs[i].content]]

\* The object handed to JSON.stringify in lines 141-144, for a turn record.
RequestBody(tr) == [messages |-> tr.chatMessages, conversationId |-> tr.conversationId]

\* The fields of the JSON text of a body: JSON.stringify leaves out a
\* property whose value is undefined and writes one whose value is null.
BodyKeys(body) ==
    {"messages"} \cup (IF body.conversationId = Undef THEN {} ELSE {"conversationId"})

\* The first free slot holds the next accepted call.
FreeTurn(t) ==
    /\ turns[t].pc = "idle"
    /\ \A u \in Turns : u < t => turns[u].pc # "idle"

\* Mutant of Rejects: the message is not trimmed before the test.
RejectsUntrimmed(message) == message = <<>> \/ closure.isLoading

\* if (!message.trim() || isLoading) return;   isLoading is the closure's
Rejects(message) == Trim(message) = <<>> \/ closure.isLoading

\* Lines 118-145: the guard, the optimistic update and the request, up to
\* the await of fetch.  isLoading, messages and currentConversationId are the
\* values of the closure; the setters act on the current state.
handleSendMessage(message) ==
    IF Rejects(message)
    THEN UNCHANGED vars
    ELSE \E t \in Turns :
         /\ FreeTurn(t)
         /\ LET userMessage == Message(<<t, "user">>, Trim(message), "user", <<>>)
            IN  /\ messages' = Append(messages, userMessage)
                /\ turns' = [turns EXCEPT ![t] =
                       [IdleTurn EXCEPT
                           !.pc = "fetch",
                           !.chatMessages = ChatMessages(Append(closure.messages, userMessage)),
                           !.conversationId = closure.currentConversationId]]
         /\ inputValue' = <<>>
         /\ isLoading' = TRUE
         /\ streamingContent' = <<>>
         /\ UNCHANGED <<currentConversationId, streamingToolCalls, closure,
                        loadConversationsCalls>>

\* Mutant of AssistantMessage: the fallback text is left out.
AssistantMessageNoFallback(t, fullContent, toolCallsMap) ==
    Message(<<t, "assistant">>, fullContent, "assistant", MapValues(toolCallsMap))

\* Mutant of AssistantMessage: the fallback Message carries no tool calls.
AssistantMessageFallbackAlone(t, fullContent, toolCallsMap) ==
    IF fullContent = <<>>
    THEN Message(<<t, "assistant">>, FallbackText, "assistant", <<>>)
    ELSE Message(<<t, "assistant">>, fullContent, "assistant", MapValues(toolCallsMap))

\* Lines 229-235: the finalized assistant Message.
AssistantMessage(t, fullContent, toolCallsMap) ==
    Message(<<t, "assistant">>,
            IF fullContent = <<>> THEN FallbackText ELSE fullContent,
            "assistant", MapValues(toolCallsMap))

\* Mutant of Finalize: the Message is appended twice.
FinalizeTwice(t, fullContent, toolCallsMap) ==
    /\ messages' = Append(Append(messages, AssistantMessage(t, fullContent, toolCallsMap)),
                          AssistantMessage(t, fullContent, toolCallsMap))
    /\ streamingContent' = <<>>
    /\ streamingToolCalls' = <<>>
    /\ isLoading' = FALSE
    /\ turns' = [turns EXCEPT ![t].pc = "done", ![t].outcome = "final",
                              ![t].cancelled = FALSE]

\* Mutant of Finalize: the Message is appended to the transcript of the
\* render the call closed over.
FinalizeFromClosure(t, fullContent, toolCallsMap) ==
    /\ messages' = Append(closure.messages, AssistantMessage(t, fullContent, toolCallsMap))
    /\ streamingContent' = <<>>
    /\ streamingToolCalls' = <<>>
    /\ isLoading' = FALSE
    /\ turns' = [turns EXCEPT ![t].pc = "done", ![t].outcome = "final",
                              ![t].cancelled = FALSE]

\* Lines 237-239 and the finally.
Finalize(t, fullContent, toolCallsMap) ==
    /\ messages' = Append(messages, AssistantMessage(t, fullContent, toolCallsMap))
    /\ streamingContent' = <<>>
    /\ streamingToolCalls' = <<>>
    /\ isLoading' = FALSE
    /\ turns' = [turns EXCEPT ![t].pc = "done", ![t].outcome = "final",
                              ![t].cancelled = FALSE]

\* Mutant of ErrorMessage: the catch finalizes what the loop had built.
ErrorMessagePartial(t) ==
    Message(<<t, "assistant">>,
            IF turns[t].fullContent = <<>> THEN ApologyText ELSE turns[t].fullContent,
            "assistant", MapValues(turns[t].toolCallsMap))

\* Lines 243-248: the error Message.
ErrorMessage(t) == Message(<<t, "assistant">>, ApologyText, "assistant", <<>>)

\* Mutant of Fail: the loading flag is left as it is.
FailKeepsLoading(t) ==
    /\ messages' = Append(messages, ErrorMessage(t))
    /\ streamingContent' = <<>>
    /\ turns' = [turns EXCEPT ![t] = [IdleTurn EXCEPT !.pc = "done", !.outcome = "failed"]]
    /\ UNCHANGED <<isLoading, streamingToolCalls>>

\* Mutant of Fail: the apology takes the place of the last Message.
FailReplacesLast(t) ==
    /\ messages' = Append(Front(messages), ErrorMessage(t))
    /\ streamingContent' = <<>>
    /\ isLoading' = FALSE
    /\ turns' = [turns EXCEPT ![t] = [IdleTurn EXCEPT !.pc = "done", !.outcome = "failed"]]
    /\ UNCHANGED streamingToolCalls

\* Mutant of Fail: the catch sends the request of the turn again.
FailRetries(t) ==
    /\ messages' = Append(messages, ErrorMessage(t))
    /\ streamingContent' = <<>>
    /\ isLoading' = FALSE
    /\ turns' = [turns EXCEPT ![t] =
           [IdleTurn EXCEPT !.pc = "fetch",
                            !.chatMessages = turns[t].chatMessages,
                            !.conversationId = turns[t].conversationId]]
    /\ UNCHANGED streamingToolCalls

\* Lines 240-254: the catch and the finally.
Fail(t) ==
    /\ messages' = Append(messages, ErrorMessage(t))
    /\ streamingContent' = <<>>
    /\ isLoading' = FALSE
    /\ turns' = [turns EXCEPT ![t] = [IdleTurn EXCEPT !.pc = "done", !.outcome = "failed"]]
    /\ UNCHANGED streamingToolCalls

\* await fetch(...) rejects (network failure).
FetchReject(t) ==
    /\ turns[t].pc = "fetch"
    /\ Fail(t)
    /\ UNCHANGED <<currentConversationId, inputValue, closure, loadConversationsCalls>>

\* Mutant of FetchResolve: the header is read before the status is tested.
FetchResolveReadsHeaderFirst(t, resp) ==
    /\ turns[t].pc = "fetch"
    /\ IF turns[t].conversationId = NoId /\ resp.header # NoId
       THEN /\ currentConversationId' = resp.header
            /\ loadConversationsCalls' = loadConversationsCalls + 1
       ELSE UNCHANGED <<currentConversationId, loadConversationsCalls>>
    /\ IF ~resp.ok
       THEN Fail(t)
       ELSE IF resp.hasBody
            THEN /\ turns' = [turns EXCEPT ![t].pc = "read", ![t].wire = resp.wire]
                 /\ UNCHANGED <<isLoading, messages, streamingContent, streamingToolCalls>>
            ELSE Finalize(t, <<>>, <<>>)
    /\ UNCHANGED <<inputValue, closure>>

\* await fetch(...) resolves; lines 147-166 up to the first reader.read().
\* resp = [ok, header, hasBody, wire]; header is the X-Conversation-Id or NoId;
\* currentConversationId in line 152 is the closure's.
FetchResolve(t, resp) ==
    /\ turns[t].pc = "fetch"
    /\ IF ~resp.ok
       THEN Fail(t) /\ UNCHANGED <<currentConversationId, loadConversationsCalls>>
       ELSE /\ IF turns[t].conversationId = NoId /\ resp.header # NoId
               THEN /\ currentConversationId' = resp.header
                    /\ loadConversationsCalls' = loadConversationsCalls + 1
               ELSE UNCHANGED <<currentConversationId, loadConversationsCalls>>
            /\ IF resp.hasBody
               THEN /\ turns' = [turns EXCEPT ![t].pc = "read", ![t].wire = resp.wire]
                    /\ UNCHANGED <<isLoading, messages, streamingContent, streamingToolCalls>>
               ELSE Finalize(t, <<>>, <<>>)
    /\ UNCHANGED <<inputValue, closure>>

\* The fetch of turn t resolves with one of the responses R.
FetchResolves(t, R) ==
    /\ turns[t].pc = "fetch"
    /\ \E resp \in R : FetchResolve(t, resp)

\* The loop body on one chunk, lines 169-225: the locals and the published
\* states after it.
AfterChunk(tr, value, sContent, sToolCalls) ==
    LET decoded == decode(tr.pending, value)
        text == tr.buffer \o decoded.text
        acc == ProcessLines(Acc(tr.fullContent, tr.toolCallsMap, sContent, sToolCalls,
                                tr.applied, tr.published, tr.seen),
                            CompleteLines(text), 1)
    IN  [turn |-> [tr EXCEPT !.pos = tr.pos + Len(value),
                             !.pending = decoded.pending,
                             !.buffer = KeptFragment(text),
                             !.fullContent = acc.fullContent,
                             !.toolCallsMap = acc.toolCallsMap,
                             !.applied = acc.applied,
                             !.published = acc.published,
                             !.seen = acc.seen],
         streamingContent |-> acc.streamingContent,
         streamingToolCalls |-> acc.streamingToolCalls]

\* One iteration of the while loop, lines 166-225: reader.read() gives the
\* next n bytes of the body.
ReadChunk(t, n) ==
    /\ turns[t].pc = "read"
    /\ n >= 1
    /\ turns[t].pos + n <= Len(turns[t].wire)
    /\ LET after == AfterChunk(turns[t],
                               SubSeq(turns[t].wire, turns[t].pos + 1, turns[t].pos + n),
                               streamingContent, streamingToolCalls)
       IN  /\ turns' = [turns EXCEPT ![t] = after.turn]
           /\ streamingContent' = after.streamingContent
           /\ streamingToolCalls' = after.streamingToolCalls
    /\ UNCHANGED <<isLoading, messages, currentConversationId, inputValue, closure,
                   loadConversationsCalls>>

\* Mutant of ReadDone: the open fragment is processed as a last line.
ReadDoneFlushes(t) ==
    /\ turns[t].pc = "read"
    /\ turns[t].pos = Len(turns[t].wire)
    /\ LET acc == ProcessLine(Acc(turns[t].fullContent, turns[t].toolCallsMap,
                                  streamingContent, streamingToolCalls,
                                  turns[t].applied, turns[t].published, turns[t].seen),
                              turns[t].buffer)
       IN  Finalize(t, acc.fullContent, acc.toolCallsMap)
    /\ UNCHANGED <<currentConversationId, inputValue, closure, loadConversationsCalls>>

\* reader.read() gives done: the body was delivered whole and closed.
ReadDone(t) ==
    /\ turns[t].pc = "read"
    /\ turns[t].pos = Len(turns[t].wire)
    /\ Finalize(t, turns[t].fullContent, turns[t].toolCallsMap)
    /\ UNCHANGED <<currentConversationId, inputValue, closure, loadConversationsCalls>>

\* reader.read() rejects: the connection dropped.
ReadReject(t) ==
    /\ turns[t].pc = "read"
    /\ Fail(t)
    /\ UNCHANGED <<currentConversationId, inputValue, closure, loadConversationsCalls>>

\* ------------------------------------------------- the other callbacks
\* history: the turns in flight when the transcript is replaced
MarkCancelled(ts) ==
    [t \in Turns |-> IF InFlight(t) THEN [ts[t] EXCEPT !.cancelled = TRUE] ELSE ts[t]]

startNewChat ==
    /\ messages' = <<>>
    /\ currentConversationId' = NoId
    /\ inputValue' = <<>>
    /\ turns' = MarkCancelled(turns)
    /\ UNCHANGED <<isLoading, streamingContent, streamingToolCalls, closure,
                   loadConversationsCalls>>

\* Conversations the sidebar lists, and what the messages route returns.
StoredConversations == {"c101"}

StoredMessages ==
    <<[id |-> "m1", content |-> <<"q">>, role |-> "user"],
      [id |-> "m2", content |-> <<"r">>, role |-> "system"]>>

FormattedMessages(data) ==
    [i \in 1..Len(data) |->
        Message(<<0, data[i].id>>, data[i].content,
                IF data[i].role = "user" THEN "user" ELSE "assistant", <<>>)]

\* Mutant of loadConversationMessages: a failed load empties the transcript.
loadConversationMessagesClears(conversationId, ok) ==
    IF ok
    THEN /\ messages' = FormattedMessages(StoredMessages)
         /\ currentConversationId' = conversationId
         /\ turns' = MarkCancelled(turns)
         /\ UNCHANGED <<isLoading, streamingContent, streamingToolCalls, inputValue, closure,
                        loadConversationsCalls>>
    ELSE /\ messages' = <<>>
         /\ UNCHANGED <<isLoading, currentConversationId, streamingContent,
                        streamingToolCalls, inputValue, closure, turns,
                        loadConversationsCalls>>

\* loadConversationMessages after its awaits: the call itself reads and
\* writes no state, so the continuation is the whole effect.  ok = FALSE
\* stands for a non-success response and for a throw of fetch or json().
loadConversationMessages(conversationId, ok) ==
    IF ok
    THEN /\ messages' = FormattedMessages(StoredMessages)
         /\ currentConversationId' = conversationId
         /\ turns' = MarkCancelled(turns)
         /\ UNCHANGED <<isLoading, streamingContent, streamingToolCalls, inputValue, closure,
                        loadConversationsCalls>>
    ELSE UNCHANGED vars

\* onChange={setInputValue}
InputTexts == {<<>>, <<"h">>}

setInputValue(v) ==
    /\ inputValue' = v
    /\ UNCHANGED <<isLoading, messages, currentConversationId, streamingContent,
                   streamingToolCalls, closure, turns, loadConversationsCalls>>

\* React runs the component again: the callbacks close over the new state.
Render ==
    /\ closure # Rendered
    /\ closure' = Rendered
    /\ UNCHANGED <<isLoading, messages, currentConversationId, streamingContent,
                   streamingToolCalls, inputValue, turns, loadConversationsCalls>>

\* ------------------------------------------------------------ ChatMessages
\* tool.name === 'REQUEST_USER_INPUT'
RequestUserInput == "REQUEST_USER_INPUT"

\* Mutant of userInputTool: the last such call is taken.
userInputToolLast(toolCalls) ==
    LET hits == SelectSeq(toolCalls, LAMBDA tool : tool.name = RequestUserInput)
    IN  IF hits = <<>> THEN <<>> ELSE <<hits[Len(hits)]>>

\* toolCalls.find(tool => tool.name === 'REQUEST_USER_INPUT'): <<>> for
\* undefined, otherwise the one call found
RECURSIVE userInputTool(_)
userInputTool(toolCalls) ==
    IF toolCalls = <<>> THEN <<>>
    ELSE IF Head(toolCalls).name = RequestUserInput THEN <<Head(toolCalls)>>
    ELSE userInputTool(Tail(toolCalls))

\* toolCalls.filter(toolCall => toolCall.name !== 'REQUEST_USER_INPUT')
RECURSIVE filter(_)
filter(toolCalls) ==
    IF toolCalls = <<>> THEN <<>>
    ELSE (IF Head(toolCalls).name # RequestUserInput THEN <<Head(toolCalls)>> ELSE <<>>)
         \o filter(Tail(toolCalls))

\* The OAuthInputModal elements of a view: one, with the input its props are
\* read from, or none.  onOAuthInputSubmit is always handed in (line 320).
Form(found) == IF found = <<>> THEN <<>> ELSE <<found[1].input>>

\* What lines 52-107 show of one Message: the ToolCallDisplay elements and
\* the form.
MessageView(message) ==
    [toolCalls |-> IF message.sender = "assistant" /\ message.toolCalls # <<>>
                   THEN filter(message.toolCalls) ELSE <<>>,
     form |-> IF message.sender = "assistant"
              THEN Form(userInputTool(message.toolCalls)) ELSE <<>>]

\* What lines 110-167 show while isLoading: the streaming view.
StreamingView ==
    [toolCalls |-> IF streamingToolCalls # <<>> THEN filter(streamingToolCalls) ELSE <<>>,
     form |-> Form(userInputTool(streamingToolCalls))]

\* ------------------------------------------------------- the agent backend
\* The wire format of the response body: one  data: <json>  line per event,
\* UTF-8 encoded.
JsonTextDelta(delta) == <<"{", "text-delta">> \o delta \o <<"}">>
JsonToolInputStart(id, name) == <<"{", "tool-input-start", id, name, "}">>
JsonToolInputAvailable(id, input) == <<"{", "tool-input-available", id, input, "}">>
JsonToolOutputAvailable(id, output) == <<"{", "tool-output-available", id, output, "}">>

Frame(json) == DataPrefix \o json

RECURSIVE Utf8(_)
Utf8(text) ==
    IF text = <<>> THEN <<>>
    ELSE (IF Head(text) = "E9" THEN <<"C3", "A9">> ELSE <<Head(text)>>) \o Utf8(Tail(text))

\* the bytes of a sequence of lines, each ended by a newline
RECURSIVE WireOf(_)
WireOf(lines) ==
    IF lines = <<>> THEN <<>> ELSE Utf8(Head(lines)) \o <<LF>> \o WireOf(Tail(lines))

SeqsUpTo(S, n) == UNION {[1..k -> S] : k \in 0..n}

\* Texts a caller hands to handleSendMessage
Texts == {<<>>, <<" ">>, <<"h">>, <<" ", "h", " ">>}

\* The response body of the turn-level specification
OrchWires ==
    { WireOf(<<Frame(JsonTextDelta(<<"x">>)),
               Frame(JsonToolInputStart("A", "REQUEST_USER_INPUT"))>>) }

Response(ok, header, hasBody, wire) ==
    [ok |-> ok, header |-> header, hasBody |-> hasBody, wire |-> wire]

\* The backend allocates the identifier "t" for the request of turn t.
Responses(t) ==
    {Response(FALSE, h, b, IF b THEN w ELSE <<>>) :
         h \in {NoId, ToString(t)}, b \in BOOLEAN, w \in OrchWires}
    \cup {Response(TRUE, h, FALSE, <<>>) : h \in {NoId, ToString(t)}}
    \cup {Response(TRUE, h, TRUE, w) : h \in {NoId, ToString(t)}, w \in OrchWires}

\* chunk sizes that end at a line end or at the end of the body
LineAligned(t) ==
    {n \in 1..(Len(turns[t].wire) - turns[t].pos) :
        \/ turns[t].wire[turns[t].pos + n] = LF
        \/ turns[t].pos + n = Len(turns[t].wire)}

\* the chunk that ends at the next line end
OneLine(t) == {n \in LineAligned(t) : \A k \in LineAligned(t) : n <= k}

AnySize(t) == 1..(Len(turns[t].wire) - turns[t].pos)

\* -------------------------------------------------- handleOAuthInputSubmit
\* values: Record<string, string>, as the sequence of its properties in the
\* order they were added.
FieldNames == {"code", "2", "10"}
FieldValues == {"123"}

Field(name, value) == [name |-> name, value |-> value]

\* the objects a form hands to onSubmit
SubmittedValues ==
    {v \in SeqsUpTo({Field(n, x) : n \in FieldNames, x \in FieldValues}, MaxFields) :
        \A i, j \in 1..Len(v) : i # j => v[i].name # v[j].name}

\* The array index a property name stands for, -1 when it is no array index:
\* property enumeration puts the array indices first, in ascending order.
ArrayIndex(name) == IF name = "2" THEN 2 ELSE IF name = "10" THEN 10 ELSE -1

RECURSIVE InsertByIndex(_, _)
InsertByIndex(sorted, e) ==
    IF sorted = <<>> THEN <<e>>
    ELSE IF ArrayIndex(e.name) < ArrayIndex(Head(sorted).name) THEN <<e>> \o sorted
    ELSE <<Head(sorted)>> \o InsertByIndex(Tail(sorted), e)

RECURSIVE SortByIndex(_)
SortByIndex(es) ==
    IF es = <<>> THEN <<>> ELSE InsertByIndex(SortByIndex(Front(es)), Last(es))

\* Object.entries(values)
entries(values) ==
    SortByIndex(SelectSeq(values, LAMBDA e : ArrayIndex(e.name) >= 0))
    \o SelectSeq(values, LAMBDA e : ArrayIndex(e.name) < 0)

\* `${key}: ${value}`
EntryText(e) == <<e.name, ":", " ", e.value>>

\* Array.prototype.join(', ') over the entry texts
RECURSIVE join(_)
join(es) ==
    IF es = <<>> THEN <<>>
    ELSE IF Len(es) = 1 THEN EntryText(es[1])
    ELSE EntryText(Head(es)) \o <<",", " ">> \o join(Tail(es))

inputSummary(values) == join(entries(values))

\* the template literal of line 87
ResumeText(values) ==
    <<"I've provided the following inputs: ">> \o inputSummary(values)
        \o <<". Please proceed with the connection.">>

\* Lines 81-88.
handleOAuthInputSubmit(values) == handleSendMessage(ResumeText(values))

\* The forms of the last render: one for a Message of the rendered
\* transcript, and the one of the streaming view, which is rendered only
\* when the rendered isLoading is true.
MessageFormShown ==
    \E i \in 1..Len(closure.messages) : MessageView(closure.messages[i]).form # <<>>

StreamingFormShown == closure.isLoading /\ isLoading /\ StreamingView.form # <<>>

\* ---------------------------------------------------------- specifications
\* Spec: the turn-level behaviour; chunks end at line ends.
Next ==
    \/ \E message \in Texts : handleSendMessage(message)
    \/ \E t \in Turns : FetchReject(t)
    \/ \E t \in Turns : FetchResolves(t, Responses(t))
    \/ \E t \in Turns : \E n \in LineAligned(t) : ReadChunk(t, n)
    \/ \E t \in Turns : ReadDone(t)
    \/ \E t \in Turns : ReadReject(t)
    \/ startNewChat
    \/ \E c \in StoredConversations : \E ok \in BOOLEAN : loadConversationMessages(c, ok)
    \/ \E v \in InputTexts : setInputValue(v)
    \/ Render

Spec == Init /\ [][Next]_vars

\* SpecStream: one turn over every body of at most MaxLines lines, cut into
\* chunks at every byte position.
StreamLines ==
    { Frame(JsonTextDelta(<<"x">>)),
      Frame(JsonTextDelta(<<"E9">>)),
      Frame(JsonToolInputStart("A", "SEARCH")),
      Frame(JsonToolOutputAvailable("A", "o1")),
      Frame(DoneSentinel),
      Frame(<<"{", "text-delta", "y">>),
      Frame(<<"{", "ping", "}">>),
      <<":", " ", "x">>,
      <<>> }

StreamWires == {WireOf(ls) : ls \in SeqsUpTo(StreamLines, MaxLines)}

FirstSend ==
    /\ \A t \in Turns : turns[t].pc = "idle"
    /\ handleSendMessage(<<"h">>)

NextStream ==
    \/ FirstSend
    \/ FetchResolves(1, {Response(TRUE, NoId, TRUE, w) : w \in StreamWires})
    \/ \E n \in AnySize(1) : ReadChunk(1, n)
    \/ ReadDone(1)

SpecStream == Init /\ [][NextStream]_vars

\* SpecEvents: one turn over every sequence of at most MaxEvents events, one
\* line to a chunk, so that every publish is a state.
\* a data line whose JSON text was cut: JSON.parse throws on it
MalformedLine == Frame(<<"{", "text-delta", "y">>)

EventLines ==
    { Frame(JsonTextDelta(<<"x">>)),
      Frame(JsonTextDelta(<<>>)),
      MalformedLine,
      Frame(JsonToolInputStart("A", "SEARCH")),
      Frame(JsonToolInputStart("B", "REQUEST_USER_INPUT")),
      Frame(JsonToolInputAvailable("A", "i1")),
      Frame(JsonToolOutputAvailable("A", "o1")),
      Frame(JsonToolOutputAvailable("B", "o2")) }

EventWires == {WireOf(ls) : ls \in SeqsUpTo(EventLines, MaxEvents)}

NextEvents ==
    \/ FirstSend
    \/ FetchResolves(1, {Response(TRUE, NoId, TRUE, w) : w \in EventWires})
    \/ \E n \in OneLine(1) : ReadChunk(1, n)
    \/ ReadDone(1)

SpecEvents == Init /\ [][NextEvents]_vars

\* SpecView: one turn over every sequence of at most MaxEvents events that
\* start tool calls of both kinds and give them inputs.
ViewLines ==
    { Frame(JsonToolInputStart("A", "REQUEST_USER_INPUT")),
      Frame(JsonToolInputStart("A", "SEARCH")),
      Frame(JsonToolInputStart("B", "REQUEST_USER_INPUT")),
      Frame(JsonToolInputStart("B", "SEARCH")),
      Frame(JsonToolInputAvailable("A", "i1")),
      Frame(JsonToolInputAvailable("B", "i2")) }

ViewWires == {WireOf(ls) : ls \in SeqsUpTo(ViewLines, MaxEvents)}

NextView ==
    \/ FirstSend
    \/ FetchResolves(1, {Response(TRUE, NoId, TRUE, w) : w \in ViewWires})
    \/ \E n \in OneLine(1) : ReadChunk(1, n)
    \/ ReadDone(1)

SpecView == Init /\ [][NextView]_vars

\* SpecForm: turns whose stream asks for input; every message after the
\* first is the submission of a form that is on screen.
FormWires ==
    { WireOf(<<Frame(JsonToolInputStart("B", "REQUEST_USER_INPUT"))>>),
      WireOf(<<Frame(JsonTextDelta(<<"x">>)),
               Frame(JsonToolInputStart("B", "REQUEST_USER_INPUT"))>>) }

NextForm ==
    \/ FirstSend
    \/ \E t \in Turns : FetchResolves(t, {Response(TRUE, NoId, TRUE, w) : w \in FormWires})
    \/ \E t \in Turns : \E n \in OneLine(t) : ReadChunk(t, n)
    \/ \E t \in Turns : ReadDone(t)
    \/ Render
    \/ \E values \in SubmittedValues :
          /\ MessageFormShown \/ StreamingFormShown
          /\ handleOAuthInputSubmit(values)

SpecForm == Init /\ [][NextForm]_vars

\* SpecBytes: one turn over bodies given byte by byte: at most MaxLines
\* lines, among them one with a byte that is no UTF-8, one that has a space
\* before its data: prefix, an event of an unknown type and a blank line,
\* followed or not by an event whose newline never arrives; chunks end at
\* every byte position.
ByteLines ==
    { Utf8(Frame(JsonTextDelta(<<"x">>))),
      DataPrefix \o <<"{", "text-delta", "FF", "}">>,
      <<" ">> \o Utf8(Frame(JsonTextDelta(<<"y">>))),
      Utf8(Frame(JsonToolInputStart("A", "SEARCH"))),
      Utf8(Frame(<<"{", "ping", "}">>)),
      <<>> }

ByteTails == {<<>>, Utf8(Frame(JsonTextDelta(<<"x">>)))}

RECURSIVE BytesOf(_)
BytesOf(lines) ==
    IF lines = <<>> THEN <<>> ELSE Head(lines) \o <<LF>> \o BytesOf(Tail(lines))

ByteWires ==
    {BytesOf(ls) \o tail : ls \in SeqsUpTo(ByteLines, MaxLines), tail \in ByteTails}

NextBytes ==
    \/ FirstSend
    \/ FetchResolves(1, {Response(TRUE, NoId, TRUE, w) : w \in ByteWires})
    \/ \E n \in AnySize(1) : ReadChunk(1, n)
    \/ ReadDone(1)

SpecBytes == Init /\ [][NextBytes]_vars

\* SpecTools: one turn over every sequence of at most MaxEvents events that
\* start tool calls and give them inputs and outputs, more than one to a
\* call; one line to a chunk.
ToolLines ==
    { Frame(JsonToolInputStart("A", "SEARCH")),
      Frame(JsonToolInputStart("B", "REQUEST_USER_INPUT")),
      Frame(JsonToolInputAvailable("A", "i1")),
      Frame(JsonToolInputAvailable("A", "i2")),
      Frame(<<"{", "tool-input-available", "A", "}">>),
      Frame(JsonToolOutputAvailable("A", "o1")),
      Frame(JsonToolOutputAvailable("A", "o2")) }

ToolWires == {WireOf(ls) : ls \in SeqsUpTo(ToolLines, MaxEvents)}

NextTools ==
    \/ FirstSend
    \/ FetchResolves(1, {Response(TRUE, NoId, TRUE, w) : w \in ToolWires})
    \/ \E n \in OneLine(1) : ReadChunk(1, n)
    \/ ReadDone(1)

SpecTools == Init /\ [][NextTools]_vars

\* SpecLive: the turns of a session in which the transport settles every
\* promise it gave: a pending fetch resolves or rejects, the reads of a body
\* end with done or with a rejection, and React renders again after a state
\* change.
Settle(t) ==
    \/ FetchReject(t)
    \/ FetchResolves(t, Responses(t))
    \/ ReadDone(t)
    \/ ReadReject(t)

NextLive ==
    \/ handleSendMessage(<<"h">>)
    \/ \E t \in Turns : Settle(t)
    \/ \E t \in Turns : \E n \in OneLine(t) : ReadChunk(t, n)
    \/ Render

SpecLive ==
    /\ Init
    /\ [][NextLive]_vars
    /\ \A t \in Turns : WF_vars(Settle(t))
    /\ WF_vars(Render)

\* ------------------------------------------------------------------ claims
\* the Messages of the transcript msgs that turn t's handleSendMessage built
\* as its answer
AssistantCount(msgs, t) ==
    Cardinality({j \in 1..Len(msgs) : msgs[j].id = <<t, "assistant">>})

\* C1: at most one turn is in flight in every reachable state; a call of
\* handleSendMessage made while an accepted turn has not finished starts none.
C1_MutualExclusion == Cardinality({t \in Turns : InFlight(t)}) <= 1

\* C2: once startNewChat or loadConversationMessages has replaced the
\* transcript while a turn was in flight, that turn appends no assistant
\* Message (finalized or error), and the streaming text and tool-call list
\* are discarded with the transcript.
C2_CancellationDiscardsTurn ==
    [][\A t \in Turns :
          /\ (InFlight(t) /\ turns[t].cancelled)
                => AssistantCount(messages', t) <= AssistantCount(messages, t)
          /\ (InFlight(t) /\ ~turns[t].cancelled /\ turns'[t].cancelled)
                => (streamingContent' = <<>> /\ streamingToolCalls' = <<>>)]_vars

\* C3: a turn that fails after its user Message was appended (fetch rejects,
\* non-success status, read rejects mid-stream) appends exactly one assistant
\* Message, the fixed apology without tool calls, never one built from the
\* partial text or tool calls, and leaves the loading flag false; a finished
\* turn appends nothing more.
C3_FailureAppendsOneApology ==
    [][\A t \in Turns :
          /\ (InFlight(t) /\ turns'[t].outcome = "failed")
                => /\ messages' = Append(messages,
                                         [id |-> <<t, "assistant">>, content |-> ApologyText,
                                          sender |-> "assistant", toolCalls |-> <<>>])
                   /\ isLoading' = FALSE
          /\ turns[t].pc = "done"
                => AssistantCount(messages', t) <= AssistantCount(messages, t)]_vars

\* C3 witness: the only turn so far failed in the middle of its stream, after
\* a tool-input-start was applied; the transcript ends with the apology.
C3_Witness ==
    /\ turns[1].outcome = "failed"
    /\ turns[2].pc = "idle"
    /\ streamingToolCalls # <<>>
    /\ ~isLoading
    /\ Len(messages) = 2
    /\ messages[1].id = <<1, "user">>
    /\ messages[2].content = ApologyText

\* C4: in every state where no turn is in flight the streaming text and the
\* streaming tool-call list are empty.
C4_TransientCleared ==
    (\A t \in Turns : ~InFlight(t))
        => (streamingContent = <<>> /\ streamingToolCalls = <<>>)

\* the text a finalized Message shows for the applied deltas
ShownText(applied) == IF Concat(applied) = <<>> THEN FallbackText ELSE Concat(applied)

\* The step that finalizes turn t appends exactly the Message with this
\* content, behind the turn's user Message.
FinalizeAppends(t, content) ==
    (InFlight(t) /\ turns'[t].outcome = "final")
        => /\ messages' = Append(messages,
                                 [id |-> <<t, "assistant">>, content |-> content,
                                  sender |-> "assistant", toolCalls |-> turns[t].published])
           /\ \A j \in 1..Len(messages') :
                 messages'[j].id = <<t, "user">> => j < Len(messages')

\* C5 as stated: when the stream of a turn closes without failure exactly one
\* assistant Message is appended, after the turn's user Message, whose content
\* is the concatenation of the applied text deltas and whose toolCalls is the
\* last published tool-call list.
C5_FinalizationAsStated ==
    [][\A t \in Turns :
          /\ FinalizeAppends(t, Concat(turns[t].applied))
          /\ turns[t].pc = "done"
                => AssistantCount(messages', t) <= AssistantCount(messages, t)]_vars

\* C5 amended: the content is the concatenation of the applied text deltas
\* when that is non-empty and the fixed fallback text when it is empty; the
\* toolCalls is the last list the turn published (empty when it published
\* none); exactly one such Message is appended, after the user Message.
C5_Finalization ==
    [][\A t \in Turns :
          /\ FinalizeAppends(t, ShownText(turns[t].applied))
          /\ turns[t].pc = "done"
                => AssistantCount(messages', t) <= AssistantCount(messages, t)]_vars

\* C5 witness: one turn finalized with no delta applied and shows the
\* fallback, another finalized the delta x and a published tool call.
C5_Witness ==
    /\ turns[1].outcome = "final" /\ turns[1].applied = <<>>
    /\ turns[2].outcome = "final" /\ turns[2].applied = <<<<"x">>>>
    /\ Len(turns[2].published) = 1
    /\ \E i, j \in 1..Len(messages) :
          /\ messages[i].id = <<1, "assistant">> /\ messages[i].content = FallbackText
          /\ messages[j].id = <<2, "assistant">> /\ messages[j].content = <<"x">>
          /\ messages[j].toolCalls = turns[2].published

\* --------------------------------------------------- the Stream Reader
\* the bytes turn t has received so far
Received(t) == SubSeq(turns[t].wire, 1, turns[t].pos)

\* the read loop run once over the whole of a text, in one chunk
OneShot(text) ==
    ProcessLines(Acc(<<>>, <<>>, <<>>, <<>>, <<>>, <<>>, <<>>), CompleteLines(text), 1)

\* C6: whatever the chunks were, after any number of them the read loop has
\* gone over exactly the complete lines of the bytes received so far, in
\* order, keeps exactly the open fragment, and holds the text and tool calls
\* that one pass over those bytes in a single chunk gives; so the finalized
\* Message is the same for every partitioning of the body.
C6_SplitInvariance ==
    turns[1].pc \in {"read", "done"} =>
        LET whole == decode(<<>>, Received(1))
            once == OneShot(whole.text)
        IN  /\ turns[1].seen = Front(split(whole.text))
            /\ turns[1].buffer = Last(split(whole.text))
            /\ turns[1].pending = whole.pending
            /\ turns[1].fullContent = once.fullContent
            /\ turns[1].toolCallsMap = once.toolCallsMap
            /\ turns[1].pc = "read" =>
                  /\ streamingContent = once.streamingContent
                  /\ streamingToolCalls = once.streamingToolCalls
            /\ turns[1].outcome = "final" =>
                  /\ Received(1) = turns[1].wire
                  /\ Last(messages).content = ShownText(once.applied)
                  /\ Last(messages).toolCalls = once.toolCallsMap

\* C6 witness: a chunk ended inside the data: prefix of the second line, after
\* the first line, reassembled from its own chunks, was applied.
C6_Witness ==
    /\ turns[1].pc = "read"
    /\ turns[1].wire = WireOf(<<Frame(JsonTextDelta(<<"E9">>)),
                                Frame(JsonToolInputStart("A", "SEARCH"))>>)
    /\ turns[1].seen = <<Frame(JsonTextDelta(<<"E9">>))>>
    /\ turns[1].buffer = <<"d", "a", "t">>
    /\ turns[1].fullContent = <<"E9">>

\* the bodies that carry only text-delta events
DeltaSeqs == SeqsUpTo({<<"x">>, <<"E9">>}, MaxLines)

DeltaWire(ds) == WireOf([i \in 1..Len(ds) |-> Frame(JsonTextDelta(ds[i]))])

\* C7: when the body carried only text-delta events d1..dn, one to a line,
\* and their concatenation is not empty, the finalized Message has exactly
\* that concatenation as its content, whatever the chunks were.
C7_DeltaRoundTrip ==
    \A ds \in DeltaSeqs :
        (turns[1].outcome = "final" /\ turns[1].wire = DeltaWire(ds) /\ Concat(ds) # <<>>)
            => /\ Last(messages).content = Concat(ds)
               /\ Last(messages).id = <<1, "assistant">>
               /\ turns[1].applied = ds

\* C7 witness: the deltas x and e-acute (two bytes on the wire) were finalized.
C7_Witness ==
    /\ turns[1].outcome = "final"
    /\ turns[1].wire = DeltaWire(<<<<"x">>, <<"E9">>>>)
    /\ Len(messages) = 2
    /\ messages[2].content = <<"x", "E9">>

\* ----------------------------------------------------------- tool calls
IdsOf(list) == [i \in 1..Len(list) |-> list[i].id]

\* the id a line starts a tool call for, "none" for any other line
StartIdOf(line) ==
    IF \E id \in ToolIds, name \in ToolNames : line = Frame(JsonToolInputStart(id, name))
    THEN CHOOSE id \in ToolIds :
             \E name \in ToolNames : line = Frame(JsonToolInputStart(id, name))
    ELSE "none"

\* the ids of the tool-input-start lines among lines, each at its first one
RECURSIVE FirstStartsFrom(_, _, _)
FirstStartsFrom(lines, i, out) ==
    IF i > Len(lines) THEN out
    ELSE LET id == StartIdOf(lines[i])
         IN  IF id = "none" \/ \E k \in 1..Len(out) : out[k] = id
             THEN FirstStartsFrom(lines, i + 1, out)
             ELSE FirstStartsFrom(lines, i + 1, Append(out, id))

FirstStarts(lines) == FirstStartsFrom(lines, 1, <<>>)

\* start(A), start(B), output(B), output(A)
StartABOutputBA ==
    <<Frame(JsonToolInputStart("A", "SEARCH")),
      Frame(JsonToolInputStart("B", "REQUEST_USER_INPUT")),
      Frame(JsonToolOutputAvailable("B", "o2")),
      Frame(JsonToolOutputAvailable("A", "o1"))>>

\* C8: every published tool-call list, the list on screen while the turn
\* reads, and the list of the finalized Message hold the tool calls in the
\* order of the first tool-input-start of each id among the lines processed,
\* wherever the input and output events came; start(A), start(B), output(B),
\* output(A) gives [A, B], both completed.
C8_OrderPreserved ==
    turns[1].pc \in {"read", "done"} =>
        /\ IdsOf(turns[1].published) = FirstStarts(turns[1].seen)
        /\ turns[1].pc = "read" => IdsOf(streamingToolCalls) = FirstStarts(turns[1].seen)
        /\ turns[1].outcome = "final"
              => IdsOf(Last(messages).toolCalls) = FirstStarts(turns[1].seen)
        /\ turns[1].seen = StartABOutputBA
              => turns[1].published =
                     <<[id |-> "A", name |-> "SEARCH", input |-> EmptyObject,
                        output |-> "o1", status |-> "completed"],
                       [id |-> "B", name |-> "REQUEST_USER_INPUT", input |-> EmptyObject,
                        output |-> "o2", status |-> "completed"]>>

\* C8 witness: start(A), start(B), output(B), output(A) was read and
\* finalized as [A, B], both completed.
C8_Witness ==
    /\ turns[1].outcome = "final"
    /\ turns[1].seen = StartABOutputBA
    /\ IdsOf(Last(messages).toolCalls) = <<"A", "B">>
    /\ \A i \in 1..2 : Last(messages).toolCalls[i].status = "completed"

\* C9: a tool call whose status is completed stays in the collection with
\* the status completed through every later event of the stream.
C9_CompletedIsTerminal ==
    [][\A i \in 1..Len(turns[1].toolCallsMap) :
          (turns[1].pc = "read" /\ turns[1].toolCallsMap[i].status = "completed")
              => /\ Len(turns'[1].toolCallsMap) >= i
                 /\ turns'[1].toolCallsMap[i].id = turns[1].toolCallsMap[i].id
                 /\ turns'[1].toolCallsMap[i].status = "completed"]_vars

\* C10: a tool-input-start line whose id is in the collection leaves the
\* collection and every record of it unchanged; one whose id is absent adds
\* the record {id, name, input: {}, status: running} at the end.
C10_StartInsertsOnlyWhenAbsent ==
    [][(turns[1].pc = "read" /\ Len(turns'[1].seen) = Len(turns[1].seen) + 1) =>
          \A id \in ToolIds, name \in ToolNames :
              Last(turns'[1].seen) = Frame(JsonToolInputStart(id, name))
                  => turns'[1].toolCallsMap =
                         IF \E i \in 1..Len(turns[1].toolCallsMap) :
                                turns[1].toolCallsMap[i].id = id
                         THEN turns[1].toolCallsMap
                         ELSE Append(turns[1].toolCallsMap,
                                     [id |-> id, name |-> name, input |-> EmptyObject,
                                      output |-> Undef, status |-> "running"])]_vars

\* the read loop of turn 1 goes over exactly one more line in this step
ReadsOneLine ==
    turns[1].pc = "read" /\ Len(turns'[1].seen) = Len(turns[1].seen) + 1

\* line is a tool-input-available or tool-output-available event for id
IsInputOrOutputFor(line, id) ==
    \/ \E v \in InputValues : line = Frame(JsonToolInputAvailable(id, v))
    \/ \E v \in OutputValues : line = Frame(JsonToolOutputAvailable(id, v))

\* C11: a tool-input-available or tool-output-available line for an id that
\* no earlier tool-input-start line of the stream named leaves the tool-call
\* collection, the text and the published lists unchanged, and the turn
\* reads on.
C11_UnknownIdIsNoOp ==
    [][ReadsOneLine =>
          \A id \in ToolIds :
              (/\ IsInputOrOutputFor(Last(turns'[1].seen), id)
               /\ \A k \in 1..Len(turns[1].seen) : StartIdOf(turns[1].seen[k]) # id)
                  => /\ turns'[1].toolCallsMap = turns[1].toolCallsMap
                     /\ turns'[1].fullContent = turns[1].fullContent
                     /\ turns'[1].published = turns[1].published
                     /\ streamingToolCalls' = streamingToolCalls
                     /\ streamingContent' = streamingContent
                     /\ messages' = messages
                     /\ turns'[1].pc = "read"
                     /\ isLoading']_vars

\* C11 witness: an output for B came while only A had been started; A's
\* record is the only one, and the output of A that came next was applied.
C11_Witness ==
    /\ turns[1].pc = "read"
    /\ turns[1].seen = <<Frame(JsonToolInputStart("A", "SEARCH")),
                         Frame(JsonToolOutputAvailable("B", "o2")),
                         Frame(JsonToolOutputAvailable("A", "o1"))>>
    /\ IdsOf(streamingToolCalls) = <<"A">>
    /\ streamingToolCalls[1].status = "completed"

\* the lines of lines that come before the first  data: [DONE]  line
RECURSIVE BeforeDone(_)
BeforeDone(lines) ==
    IF lines = <<>> \/ Head(lines) = Frame(DoneSentinel) THEN <<>>
    ELSE <<Head(lines)>> \o BeforeDone(Tail(lines))

\* the read loop run over a sequence of lines
OverLines(lines) ==
    ProcessLines(Acc(<<>>, <<>>, <<>>, <<>>, <<>>, <<>>, <<>>), lines, 1)

\* C12: once a  data: [DONE]  line was processed, the text and the tool-call
\* collection are what the lines before it gave: no later line, in the same
\* chunk or a later one, changes them.
C12_DoneEndsProcessing ==
    turns[1].pc \in {"read", "done"} =>
        /\ turns[1].fullContent = OverLines(BeforeDone(turns[1].seen)).fullContent
        /\ turns[1].toolCallsMap = OverLines(BeforeDone(turns[1].seen)).toolCallsMap

\* the lines of lines other than the malformed one
WellFormed(lines) == SelectSeq(lines, LAMBDA l : l # MalformedLine)

\* C13: a data line that is no JSON changes neither the text nor the
\* tool-call collection and hides no valid event before or after it: both are
\* what the other lines alone give; the step that reads it leaves the turn
\* reading, and the turn ends with the finalized Message, not the apology.
C13_MalformedLineSkipped ==
    turns[1].pc \in {"read", "done"} =>
        /\ turns[1].fullContent = OverLines(WellFormed(turns[1].seen)).fullContent
        /\ turns[1].toolCallsMap = OverLines(WellFormed(turns[1].seen)).toolCallsMap
        /\ turns[1].applied = OverLines(WellFormed(turns[1].seen)).applied
        /\ turns[1].outcome # "failed"
        /\ turns[1].pc = "read" => (isLoading /\ Len(messages) = 1)
        /\ turns[1].pc = "done" =>
              /\ Len(messages) = 2
              /\ messages[2].content =
                     ShownText(OverLines(WellFormed(turns[1].seen)).applied)
              /\ messages[2].content # ApologyText
              /\ messages[2].toolCalls = OverLines(WellFormed(turns[1].seen)).toolCallsMap

\* C13 witness: a malformed line came between a text delta and a tool start;
\* both were applied and the turn was finalized.
C13_Witness ==
    /\ turns[1].outcome = "final"
    /\ turns[1].seen = <<Frame(JsonTextDelta(<<"x">>)), MalformedLine,
                         Frame(JsonToolInputStart("A", "SEARCH"))>>
    /\ messages[2].content = <<"x">>
    /\ IdsOf(messages[2].toolCalls) = <<"A">>

\* the texts that are empty or hold white space only
BlankTexts == {m \in Texts : \A i \in 1..Len(m) : m[i] \in {" ", "LF", "CR"}}

\* C14: no call of handleSendMessage with an empty or white-space-only text
\* changes anything: transcript, input buffer, loading flag, conversation
\* identifier, streaming state and turns (no request) stay as they are,
\* whether or not a turn is in flight.
C14_BlankInputRejected ==
    [][(\E m \in BlankTexts : handleSendMessage(m)) => UNCHANGED vars]_vars

\* C14 witness: with a transcript, a typed input and no turn in flight (so
\* that only the test of the text stands between the call and a turn), a
\* call with a blank text can be made.
C14_Witness ==
    /\ ~isLoading /\ ~closure.isLoading
    /\ inputValue = <<"h">>
    /\ Len(messages) = 2
    /\ currentConversationId = "1"
    /\ turns[2].pc = "idle"
    /\ ENABLED handleSendMessage(<<" ">>)

\* C15: the step in which a turn is accepted and its request goes out appends
\* the user Message (the trimmed text, which is also the last message of the
\* request) and clears the input buffer; the step in which a turn fails keeps
\* every Message the transcript had, the user Message among them.
C15_OptimisticUpdate ==
    [][\A t \in Turns :
          /\ (turns[t].pc = "idle" /\ turns'[t].pc = "fetch")
                => /\ Len(turns'[t].chatMessages) >= 1
                   /\ messages' = Append(messages,
                          [id |-> <<t, "user">>,
                           content |-> Last(turns'[t].chatMessages).content,
                           sender |-> "user", toolCalls |-> <<>>])
                   /\ Last(turns'[t].chatMessages).role = "user"
                   /\ Last(turns'[t].chatMessages).content # <<>>
                   /\ inputValue' = <<>>
          /\ (InFlight(t) /\ turns'[t].outcome = "failed")
                => /\ Len(messages') = Len(messages) + 1
                   /\ SubSeq(messages', 1, Len(messages)) = messages]_vars

\* C15 witness: the request of the first turn failed before any byte came;
\* its user Message is still the first of the transcript, the apology behind.
C15_Witness ==
    /\ turns[1].outcome = "failed" /\ turns[2].pc = "idle"
    /\ streamingToolCalls = <<>>
    /\ inputValue = <<>>
    /\ Len(messages) = 2
    /\ messages[1] = [id |-> <<1, "user">>, content |-> <<"h">>,
                      sender |-> "user", toolCalls |-> <<>>]
    /\ messages[2].id = <<1, "assistant">>

\* the transcript msgs as the request carries it: sender user as role user,
\* sender assistant as role assistant
RoleMapped(msgs) ==
    [i \in 1..Len(msgs) |-> [role |-> msgs[i].sender, content |-> msgs[i].content]]

C17_NonSuccessStops ==
    [][\A t \in Turns :
          (turns[t].pc = "fetch" /\ turns'[t].outcome = "failed")
              => /\ currentConversationId' = currentConversationId
                 /\ loadConversationsCalls' = loadConversationsCalls
                 /\ turns'[t].pc = "done"
                 /\ turns'[t].pos = 0 /\ turns'[t].seen = <<>>
                 /\ streamingContent' = <<>>
                 /\ streamingToolCalls' = streamingToolCalls
                 /\ messages' = Append(messages,
                        [id |-> <<t, "assistant">>, content |-> ApologyText,
                         sender |-> "assistant", toolCalls |-> <<>>])
                 /\ ~isLoading']_vars

\* C17 witness: the first turn of a session, sent with no identifier, failed
\* and was rendered; no identifier is known, loadConversations was not called.
C17_Witness ==
    /\ turns[1].outcome = "failed" /\ turns[2].pc = "idle"
    /\ currentConversationId = NoId
    /\ loadConversationsCalls = 0
    /\ streamingToolCalls = <<>>
    /\ Len(messages) = 2 /\ messages[2].content = ApologyText
    /\ closure = [isLoading |-> FALSE, messages |-> messages, currentConversationId |-> NoId]

\* the fetch of turn t resolves with a success status in this step
ResolvesOk(t) ==
    /\ turns[t].pc = "fetch"
    /\ turns'[t].pc = "read" \/ turns'[t].outcome = "final"

\* C18: an identifier is adopted only by a turn that was sent without one,
\* and then loadConversations is called exactly once; once the session has
\* an identifier it is the one of all later turns: a response changes
\* neither it nor the number of calls.
C18_IdentifierAdoption ==
    [][\A t \in Turns :
          /\ ResolvesOk(t) =>
                /\ currentConversationId' # currentConversationId
                      => /\ turns[t].conversationId = NoId
                         /\ currentConversationId' # NoId
                         /\ loadConversationsCalls' = loadConversationsCalls + 1
                /\ currentConversationId' = currentConversationId
                      => loadConversationsCalls' = loadConversationsCalls
                /\ currentConversationId # NoId
                      => currentConversationId' = currentConversationId]_vars

\* every character the text deltas among lines carry, in order
RECURSIVE DeltaCharsOf(_)
DeltaCharsOf(lines) ==
    IF lines = <<>> THEN <<>>
    ELSE (IF \E d \in SeqsUpTo(DeltaChars, 1) : Head(lines) = Frame(JsonTextDelta(d))
          THEN SubSeq(Head(lines), PrefixLen + 3, Len(Head(lines)) - 1)
          ELSE <<>>) \o DeltaCharsOf(Tail(lines))

\* C19: the Message that finalizes a stream has the fixed fallback text as
\* its content exactly when no text delta of the stream carried a character,
\* and then still carries the tool calls of the stream; when some delta
\* carried a character the content is those characters, not the fallback.
C19_EmptyTextFallback ==
    turns[1].outcome = "final" =>
        LET chars == DeltaCharsOf(turns[1].seen)
            m == messages[Len(messages)]
        IN  /\ m.id = <<1, "assistant">>
            /\ chars = <<>> => (m.content = FallbackText /\ m.toolCalls = turns[1].toolCallsMap)
            /\ chars # <<>> => (m.content = chars /\ m.content # FallbackText)
            /\ IdsOf(m.toolCalls) = FirstStarts(turns[1].seen)

\* C19 witness: an empty delta and a started tool call were all the stream
\* had; the Message shows the fallback and carries the tool call.
C19_Witness ==
    /\ turns[1].outcome = "final"
    /\ turns[1].seen = <<Frame(JsonTextDelta(<<>>)),
                         Frame(JsonToolInputStart("B", "REQUEST_USER_INPUT"))>>
    /\ turns[1].applied = <<<<>>>>
    /\ messages[2].content = FallbackText
    /\ IdsOf(messages[2].toolCalls) = <<"B">>

\* the positions of the REQUEST_USER_INPUT calls of a tool-call list
InterruptAt(toolCalls) ==
    {i \in 1..Len(toolCalls) : toolCalls[i].name = "REQUEST_USER_INPUT"}

\* view shows toolCalls as the claim says: the other calls in their order,
\* and a form, of the first REQUEST_USER_INPUT call, exactly when there is one
ShowsAsClaimed(view, toolCalls) ==
    /\ view.toolCalls = SelectSeq(toolCalls, LAMBDA c : c.name # "REQUEST_USER_INPUT")
    /\ (view.form # <<>>) <=> (InterruptAt(toolCalls) # {})
    /\ InterruptAt(toolCalls) # {} =>
          view.form = <<toolCalls[CHOOSE i \in InterruptAt(toolCalls) :
                                     \A j \in InterruptAt(toolCalls) : i <= j].input>>

\* C20: every assistant Message of the transcript, and the streaming view
\* while it is on screen, shows as progress exactly the tool calls whose name
\* is not REQUEST_USER_INPUT, in their order, and shows a form exactly when a
\* REQUEST_USER_INPUT call exists, with the input of the first such call.
C20_InterruptExclusion ==
    /\ \A i \in 1..Len(messages) :
          messages[i].sender = "assistant"
              => ShowsAsClaimed(MessageView(messages[i]), messages[i].toolCalls)
    /\ isLoading => ShowsAsClaimed(StreamingView, streamingToolCalls)

\* C20 witness: the finalized Message has two REQUEST_USER_INPUT calls with
\* different inputs; the form is that of the first and no call shows as
\* progress.
C20_Witness ==
    /\ turns[1].outcome = "final"
    /\ Len(messages) = 2
    /\ Len(messages[2].toolCalls) = 2
    /\ messages[2].toolCalls[1].name = "REQUEST_USER_INPUT"
    /\ messages[2].toolCalls[1].input = "i1"
    /\ messages[2].toolCalls[2].name = "REQUEST_USER_INPUT"
    /\ messages[2].toolCalls[2].input = "i2"
    /\ MessageView(messages[2]) = [toolCalls |-> <<>>, form |-> <<"i1">>]

\* the text the claim gives for a mapping: the fields in the order they
\* were added
RECURSIVE InOrderSummary(_)
InOrderSummary(values) ==
    IF values = <<>> THEN <<>>
    ELSE <<Head(values).name, ":", " ", Head(values).value>>
         \o (IF Len(values) > 1 THEN <<",", " ">> ELSE <<>>)
         \o InOrderSummary(Tail(values))

\* C21: a submission that is accepted appends the user Message whose text is
\* "I've provided the following inputs: " followed by "n1: v1, ..., nk: vk"
\* for the fields in the order they were added and by
\* ". Please proceed with the connection.".
C21_ResumeText ==
    [][\A values \in SubmittedValues :
          (handleOAuthInputSubmit(values) /\ messages' # messages)
              => messages'[Len(messages')].content =
                     <<"I've provided the following inputs: ">>
                         \o InOrderSummary(values)
                         \o <<". Please proceed with the connection.">>]_vars

\* C22: whenever the human-input form is shown, for a finalized Message or
\* for the streaming view of a turn in flight, submitting it is accepted: the
\* call appends a user Message and issues a request (a turn slot being free).
C22_SubmissionResumes ==
    \A values \in SubmittedValues :
        ( /\ MessageFormShown \/ StreamingFormShown
          /\ values # <<>>
          /\ \E t \in Turns : turns[t].pc = "idle" )
            => ENABLED ( /\ handleOAuthInputSubmit(values)
                         /\ Len(messages') = Len(messages) + 1
                         /\ \E t \in Turns : turns[t].pc = "idle" /\ turns'[t].pc = "fetch" )

\* a byte sequence that is no UTF-8: a byte that never occurs in UTF-8, a
\* continuation byte without its lead byte, a lead byte without its
\* continuation byte
HasInvalidBytes(bytes) ==
    \E i \in 1..Len(bytes) :
        \/ bytes[i] = "FF"
        \/ bytes[i] = "A9" /\ (i = 1 \/ bytes[i - 1] # "C3")
        \/ bytes[i] = "C3" /\ (i = Len(bytes) \/ bytes[i + 1] # "A9")

\* C23: a turn whose chunks carried a byte sequence that is no UTF-8 is not
\* finalized: it ends with the error Message and no Message built from the
\* decoded text.
C23_InvalidBytesAbort ==
    (turns[1].pc = "done" /\ HasInvalidBytes(Received(1)))
        => /\ turns[1].outcome = "failed"
           /\ Last(messages) = ErrorMessage(1)

\* C24: a request goes out only in the step in which a call of
\* handleSendMessage is accepted (the step that appends the user Message of
\* the turn); an accepted turn is never accepted again, the step in which it
\* appends its assistant Message, finalized or error, ends it, and an ended
\* turn stays ended: one request to a turn, no retry.
C24_NoAutomaticRetry ==
    [][\A t \in Turns :
          /\ (turns[t].pc # "fetch" /\ turns'[t].pc = "fetch")
                => /\ turns[t].pc = "idle"
                   /\ Len(messages') = Len(messages) + 1
                   /\ Last(messages').id = <<t, "user">>
          /\ turns[t].pc # "idle" => turns'[t].pc # "idle"
          /\ (InFlight(t) /\ AssistantCount(messages', t) > AssistantCount(messages, t))
                => turns'[t].pc = "done"
          /\ turns[t].pc = "done" => turns'[t].pc = "done"]_vars

\* C24 witness: the first turn failed and stayed ended; the request of the
\* second turn went out with the second accepted call.
C24_Witness ==
    /\ turns[1].pc = "done" /\ turns[1].outcome = "failed"
    /\ turns[2].pc = "fetch"
    /\ Len(messages) = 3
    /\ messages[2] = ErrorMessage(1)
    /\ messages[3].id = <<2, "user">>

\* C25: every step other than startNewChat and a successful
\* loadConversationMessages keeps every Message of the transcript as it was
\* and where it was, adding new ones only at the end; in every step a
\* Message that is in the transcript before and after is the same Message,
\* its toolCalls (records, statuses, order) included.
C25_AppendOnly ==
    [][/\ \/ /\ Len(messages') >= Len(messages)
              /\ SubSeq(messages', 1, Len(messages)) = messages
           \/ startNewChat
           \/ \E c \in StoredConversations : loadConversationMessages(c, TRUE)
       /\ \A i \in 1..Len(messages) : \A j \in 1..Len(messages') :
              messages[i].id = messages'[j].id => messages[i] = messages'[j]]_vars

\* C25 witness: two turns were finalized one after the other; the Messages of
\* the first are still the first two of the transcript and its assistant
\* Message still carries the tool call the first turn published.
C25_Witness ==
    /\ turns[1].outcome = "final" /\ turns[2].outcome = "final"
    /\ Len(messages) = 4
    /\ IdsOf(messages) = <<<<1, "user">>, <<1, "assistant">>, <<2, "user">>, <<2, "assistant">>>>
    /\ Len(messages[2].toolCalls) = 1
    /\ messages[2].toolCalls = turns[1].published
    /\ messages[2].content = <<"x">>

\* C26: while a turn is in flight and no other is, the streaming tool-call
\* list holds only what that turn's own stream published: when the turn has
\* published nothing yet, the list is empty.
C26_ToolCallsPerTurn ==
    \A t \in Turns :
        ( /\ InFlight(t)
          /\ \A u \in Turns \ {t} : ~InFlight(u)
          /\ turns[t].published = <<>> )
            => streamingToolCalls = <<>>

\* lines that are no event: the blank line, a line that has a space before
\* data: , and a well-formed event of the unknown type ping
IgnoredLines ==
    { <<>>,
      <<" ">> \o Frame(JsonTextDelta(<<"y">>)),
      Frame(<<"{", "ping", "}">>) }

\* C27: a chunk whose complete lines are all lines without the data: prefix
\* (blank lines among them) or events of an unknown type leaves the
\* accumulated text, the tool-call collection and the published text and
\* tool-call list as they were.
C27_IgnoredLinesChangeNothing ==
    [][( /\ turns[1].pc = "read" /\ turns'[1].pc = "read"
         /\ Len(turns'[1].seen) > Len(turns[1].seen)
         /\ \A i \in (Len(turns[1].seen) + 1)..Len(turns'[1].seen) :
                turns'[1].seen[i] \in IgnoredLines )
           => /\ turns'[1].fullContent = turns[1].fullContent
              /\ turns'[1].toolCallsMap = turns[1].toolCallsMap
              /\ turns'[1].published = turns[1].published
              /\ turns'[1].applied = turns[1].applied
              /\ streamingContent' = streamingContent
              /\ streamingToolCalls' = streamingToolCalls]_vars

\* C27 witness: after the start of tool call A, a line with a space before
\* its data: prefix was gone over; the text is still empty and the list
\* still holds the one running call.
C27_Witness ==
    /\ turns[1].pc = "read"
    /\ turns[1].seen = << Frame(JsonToolInputStart("A", "SEARCH")),
                          <<" ">> \o Frame(JsonTextDelta(<<"y">>)) >>
    /\ turns[1].fullContent = <<>>
    /\ streamingContent = <<>>
    /\ streamingToolCalls = <<ToolCall("A", "SEARCH", EmptyObject, Undef, "running")>>

\* the text of each of the byte lines
DecodedLines(ls) == [i \in 1..Len(ls) |-> decode(<<>>, ls[i]).text]

\* C28: when the body ends with text that has no newline behind it, be it a
\* complete data: event, the turn is finalized all the same, the read loop
\* has gone over the lines before that text and no more, the text is still
\* in the line buffer, and the finalized Message is the one those lines
\* alone give.
C28_TrailingFragmentDiscarded ==
    \A ls \in SeqsUpTo(ByteLines, MaxLines) : \A tail \in ByteTails \ {<<>>} :
        (turns[1].pc = "done" /\ turns[1].wire = BytesOf(ls) \o tail)
            => /\ turns[1].outcome = "final"
               /\ turns[1].seen = DecodedLines(ls)
               /\ turns[1].buffer = decode(<<>>, tail).text
               /\ Len(messages) = 2
               /\ Last(messages).id = <<1, "assistant">>
               /\ Last(messages).content = ShownText(OverLines(DecodedLines(ls)).applied)
               /\ Last(messages).toolCalls = OverLines(DecodedLines(ls)).toolCallsMap

\* C28 witness: the body was one text-delta line and a second text-delta
\* event without its newline; the finalized Message has the text of the
\* first alone.
C28_Witness ==
    /\ turns[1].outcome = "final"
    /\ turns[1].wire = BytesOf(<<Utf8(Frame(JsonTextDelta(<<"x">>)))>>)
                           \o Utf8(Frame(JsonTextDelta(<<"x">>)))
    /\ turns[1].buffer = Frame(JsonTextDelta(<<"x">>))
    /\ Last(messages).content = <<"x">>

\* the collection m with the record of id replaced by r, every other record
\* and every position as it was
WithRecord(m, id, r) == [i \in 1..Len(m) |-> IF m[i].id = id THEN r ELSE m[i]]

\* C29: for an id in the collection, a tool-input-available line replaces
\* the input of its record by the input of the event (the empty object when
\* the event carries none) and a tool-output-available line sets its output
\* to the output of the event and its status to completed; id, name, the
\* other fields, the other records and all positions stay, and the list is
\* published.
C29_RecordUpdates ==
    [][ReadsOneLine =>
          \A i \in 1..Len(turns[1].toolCallsMap) :
              LET m == turns[1].toolCallsMap
                  r == m[i]
                  line == Last(turns'[1].seen)
              IN  /\ \A v \in InputValues :
                         line = Frame(JsonToolInputAvailable(r.id, v))
                             => turns'[1].toolCallsMap =
                                    WithRecord(m, r.id,
                                        [id |-> r.id, name |-> r.name, input |-> v,
                                         output |-> r.output, status |-> r.status])
                  /\ line = Frame(<<"{", "tool-input-available", r.id, "}">>)
                         => turns'[1].toolCallsMap =
                                WithRecord(m, r.id,
                                    [id |-> r.id, name |-> r.name, input |-> EmptyObject,
                                     output |-> r.output, status |-> r.status])
                  /\ \A v \in OutputValues :
                         line = Frame(JsonToolOutputAvailable(r.id, v))
                             => turns'[1].toolCallsMap =
                                    WithRecord(m, r.id,
                                        [id |-> r.id, name |-> r.name, input |-> r.input,
                                         output |-> v, status |-> "completed"])
                  /\ IsInputOrOutputFor(line, r.id)
                         => streamingToolCalls' = turns'[1].toolCallsMap]_vars

\* C29 witness: start, input and output of the one call A came in this
\* order; the list holds the single completed record with both.
C29_Witness ==
    /\ turns[1].pc = "read"
    /\ turns[1].seen = << Frame(JsonToolInputStart("A", "SEARCH")),
                          Frame(JsonToolInputAvailable("A", "i1")),
                          Frame(JsonToolOutputAvailable("A", "o1")) >>
    /\ streamingToolCalls =
           <<[id |-> "A", name |-> "SEARCH", input |-> "i1", output |-> "o1",
              status |-> "completed"]>>

\* C30: a tool-output-available line for a tool call that is completed
\* changes nothing of the collection: the record, its output included, stays
\* what the first output made it.
C30_OutputIdempotent ==
    [][ReadsOneLine =>
          \A i \in 1..Len(turns[1].toolCallsMap) : \A v \in OutputValues :
              ( /\ turns[1].toolCallsMap[i].status = "completed"
                /\ Last(turns'[1].seen) =
                       Frame(JsonToolOutputAvailable(turns[1].toolCallsMap[i].id, v)) )
                  => turns'[1].toolCallsMap = turns[1].toolCallsMap]_vars

\* C31: within a turn the ids of each published tool-call list begin with
\* the ids of the list published before it, in the same order; a step that
\* changes the collection publishes it, so while the turn reads, the
\* published list and the streaming tool-call list are the records of the
\* collection in its iteration order.
C31_MonotoneSnapshots ==
    [][turns[1].pc = "read" =>
          /\ Len(turns'[1].published) >= Len(turns[1].published)
          /\ SubSeq(IdsOf(turns'[1].published), 1, Len(turns[1].published))
                 = IdsOf(turns[1].published)
          /\ turns'[1].toolCallsMap # turns[1].toolCallsMap
                => /\ turns'[1].published = MapValues(turns'[1].toolCallsMap)
                   /\ streamingToolCalls' = MapValues(turns'[1].toolCallsMap)
          /\ turns'[1].pc = "read"
                => /\ turns'[1].published = MapValues(turns'[1].toolCallsMap)
                   /\ streamingToolCalls' = turns'[1].published]_vars

\* C31 witness: A was started, then B, then A got its output: the list with
\* the ids A, B is the collection, A completed in the first place.
C31_Witness ==
    /\ turns[1].pc = "read"
    /\ turns[1].seen = << Frame(JsonToolInputStart("A", "SEARCH")),
                          Frame(JsonToolInputStart("B", "REQUEST_USER_INPUT")),
                          Frame(JsonToolOutputAvailable("A", "o1")) >>
    /\ IdsOf(turns[1].published) = <<"A", "B">>
    /\ turns[1].published[1].status = "completed"
    /\ streamingToolCalls = turns[1].toolCallsMap

\* the statuses the pipeline gives a tool call
PipelineStatuses == {"running", "completed"}

\* C32: every tool call of the streaming list, of the collection of the turn
\* and of every Message of the transcript has the status running or
\* completed; the status error occurs nowhere.
C32_NoErrorStatus ==
    /\ \A i \in 1..Len(streamingToolCalls) : streamingToolCalls[i].status \in PipelineStatuses
    /\ \A t \in Turns : \A i \in 1..Len(turns[t].toolCallsMap) :
          turns[t].toolCallsMap[i].status \in PipelineStatuses
    /\ \A j \in 1..Len(messages) : \A i \in 1..Len(messages[j].toolCalls) :
          messages[j].toolCalls[i].status \in PipelineStatuses

\* C32 witness: a turn was finalized with one call that got its output and
\* one that never did: the Message holds a completed and a running call.
C32_Witness ==
    /\ turns[1].outcome = "final"
    /\ Len(messages) = 2
    /\ Len(messages[2].toolCalls) = 2
    /\ messages[2].toolCalls[1].status = "running"
    /\ messages[2].toolCalls[2].status = "completed"
    /\ messages[2].toolCalls[2].output = "o2"

\* no two records of the list have the same id
UniqueIds(list) == \A i, j \in 1..Len(list) : list[i].id = list[j].id => i = j

\* C33: no two records of a published tool-call list, of the streaming list
\* or of the toolCalls of a Message have the same id, also when one id was
\* started more than once.
C33_UniqueIds ==
    /\ UniqueIds(streamingToolCalls)
    /\ \A t \in Turns : UniqueIds(turns[t].published) /\ UniqueIds(turns[t].toolCallsMap)
    /\ \A j \in 1..Len(messages) : UniqueIds(messages[j].toolCalls)

\* C33 witness: A was started twice, under two names, and B once; the
\* finalized Message holds one record for A, with the second name, and one
\* for B.
C33_Witness ==
    /\ turns[1].outcome = "final"
    /\ turns[1].seen = << Frame(JsonToolInputStart("A", "REQUEST_USER_INPUT")),
                          Frame(JsonToolInputStart("B", "SEARCH")),
                          Frame(JsonToolInputStart("A", "SEARCH")) >>
    /\ IdsOf(messages[2].toolCalls) = <<"A", "B">>
    /\ messages[2].toolCalls[1].name = "SEARCH"

\* C34: when the transport settles what is pending, every turn in flight
\* comes to its end, and the step that ends it leaves the loading flag
\* false; and whenever the rendered loading flag is false and a turn slot is
\* free, a call with a text is accepted.
C34_TurnsTerminate ==
    /\ \A t \in Turns : InFlight(t) ~> (turns[t].pc = "done" /\ ~isLoading)
    /\ isLoading ~> ~isLoading
    /\ [](( /\ ~closure.isLoading
            /\ \E t \in Turns : turns[t].pc = "idle" )
          => ENABLED ( /\ handleSendMessage(<<"h">>)
                       /\ Len(messages') = Len(messages) + 1 ))

\* C34 witness: the first turn read its stream to the end and was finalized,
\* the flag is false and rendered, and a call with a text would be accepted.
C34_Witness ==
    /\ turns[1].outcome = "final" /\ turns[1].pos > 0
    /\ turns[2].pc = "idle"
    /\ ~isLoading
    /\ closure = Rendered
    /\ ENABLED (handleSendMessage(<<"h">>) /\ isLoading')

\* the user Messages of the transcript msgs that the call of turn t appended
UserCount(msgs, t) == Cardinality({j \in 1..Len(msgs) : msgs[j].id = <<t, "user">>})

\* C35: the step that accepts a call appends the user Message of the turn
\* and nothing else; the step that ends the turn appends one assistant
\* Message of the turn, the finalized one or the error one, and nothing
\* else; no other step adds a Message of the turn, and an ended turn stays
\* ended: two appends to a turn, the user Message first.
C35_TwoAppendsPerTurn ==
    [][\A t \in Turns :
          /\ (turns[t].pc = "idle" /\ turns'[t].pc # "idle")
                => /\ turns'[t].pc = "fetch"
                   /\ Len(messages') = Len(messages) + 1
                   /\ SubSeq(messages', 1, Len(messages)) = messages
                   /\ Last(messages').id = <<t, "user">>
                   /\ Last(messages').sender = "user"
          /\ (InFlight(t) /\ turns'[t].pc = "done")
                => /\ Len(messages') = Len(messages) + 1
                   /\ SubSeq(messages', 1, Len(messages)) = messages
                   /\ Last(messages').id = <<t, "assistant">>
                   /\ Last(messages').sender = "assistant"
                   /\ turns'[t].outcome \in {"final", "failed"}
                   /\ turns'[t].outcome = "failed" <=> Last(messages') = ErrorMessage(t)
          /\ (turns[t].pc = turns'[t].pc \/ turns'[t].pc = "read")
                => /\ UserCount(messages', t) <= UserCount(messages, t)
                   /\ AssistantCount(messages', t) <= AssistantCount(messages, t)
          /\ turns[t].pc = "done"
                => (turns'[t].pc = "done" /\ turns'[t].outcome = turns[t].outcome)]_vars

\* C35 witness: the first turn was finalized and the second failed; the
\* transcript holds the two Messages of each, the user Message first.
C35_Witness ==
    /\ turns[1].outcome = "final" /\ turns[2].outcome = "failed"
    /\ IdsOf(messages) = <<<<1, "user">>, <<1, "assistant">>, <<2, "user">>, <<2, "assistant">>>>
    /\ messages[2] # ErrorMessage(1)
    /\ messages[4] = ErrorMessage(2)

\* C36: whenever the transcript shown begins with the messages of a stored
\* conversation that loadConversationMessages loaded, the session's
\* identifier is that conversation's: a response header that arrives after
\* the load does not replace it.
C36_IdentifierMatchesTranscript ==
    \A c \in StoredConversations :
        ( /\ Len(messages) >= Len(StoredMessages)
          /\ SubSeq(messages, 1, Len(StoredMessages)) = FormattedMessages(StoredMessages) )
            => currentConversationId = c

\* C37: a call accepted when the transcript is empty, no identifier is
\* known and no turn is in flight, as it is after startNewChat, sends a
\* request whose messages are the new user Message alone and which carries
\* no identifier.
C37_NewChatResets ==
    [][\A t \in Turns :
          ( /\ turns[t].pc = "idle" /\ turns'[t].pc = "fetch"
            /\ messages = <<>>
            /\ currentConversationId = NoId
            /\ \A u \in Turns : ~InFlight(u) )
              => /\ Len(RequestBody(turns'[t]).messages) = 1
                 /\ RequestBody(turns'[t]).messages[1].role = "user"
                 /\ RequestBody(turns'[t]).conversationId = NoId]_vars

\* the transcript of the stored conversation: role user as sender user, the
\* role system, like every other role, as sender assistant
LoadedTranscript ==
    << [id |-> <<0, "m1">>, content |-> <<"q">>, sender |-> "user", toolCalls |-> <<>>],
       [id |-> <<0, "m2">>, content |-> <<"r">>, sender |-> "assistant", toolCalls |-> <<>>] >>

\* C38: in no state can a loadConversationMessages that got a non-success
\* response, or whose request threw, change anything; a step that sets the
\* identifier to the requested id sets the transcript to the loaded messages
\* with the senders mapped, and a step that sets the transcript to them sets
\* the identifier to the requested id, leaving everything else to the turns
\* in flight.
C38_Hydration ==
    /\ [](\A c \in StoredConversations :
             ~ENABLED (loadConversationMessages(c, FALSE) /\ vars' # vars))
    /\ [][\A c \in StoredConversations :
             /\ (currentConversationId' = c /\ currentConversationId # c)
                   => messages' = LoadedTranscript
             /\ (messages' = LoadedTranscript /\ messages # LoadedTranscript)
                   => currentConversationId' = c
             /\ loadConversationMessages(c, TRUE)
                   => /\ messages' = LoadedTranscript
                      /\ currentConversationId' = c
                      /\ UNCHANGED <<isLoading, streamingContent, streamingToolCalls,
                                     inputValue, closure>>]_vars

\* C38 witness: a finalized turn had filled the transcript; the load of the
\* stored conversation replaced transcript and identifier together.
C38_Witness ==
    /\ turns[1].outcome = "final" /\ turns[2].pc = "idle"
    /\ messages = LoadedTranscript
    /\ currentConversationId = "c101"
    /\ ~isLoading

====
